---- MODULE Spec2Model ----
(***************************************************************************)
(* Model of scripts/monitor_act.py (the vigencia monitor) and of the two   *)
(* notification scripts scripts/send_email.py and                          *)
(* scripts/send_email_resumo.py that read the summary it writes.           *)
(*                                                                         *)
(* Text is modelled as a sequence of characters, each character a          *)
(* one-character string; the characters outside ASCII that the scripts use *)
(* are named by a token: "I_ACU" (I acute), "i_acu", "A_TIL" (A tilde),     *)
(* "a_til", "C_CED" (C cedilla), "c_ced", "<=" (the sign in the category   *)
(* labels).  The empty text is <<>>.  A Python Optional is a sequence of    *)
(* length at most one: None is <<>> and a present value v is <<v>>.        *)
(* A row (a dict) is a function from column names to text.                 *)
(***************************************************************************)
EXTENDS Integers, Sequences, FiniteSets, TLC

VARIABLES today, csv, filas, resumo, exitCode, rerun, mail, probe

vars == <<today, csv, filas, resumo, exitCode, rerun, mail, probe>>

\* ------------------------------------------------------------- bounds
\* the longest input table
MaxRows == 2
\* how many days the wall clock may advance after the first day
MaxTicks == 1
\* the largest day count given to the classifier on its own
MaxDias == 185

\* ------------------------------------------------------------ Optional
None == <<>>

Some(v) == <<v>>

\* ---------------------------------------------------------------- text
Digits == <<"0", "1", "2", "3", "4", "5", "6", "7", "8", "9">>

LowerChars == <<"a", "b", "c", "d", "e", "f", "g", "h", "i", "j", "k", "l", "m",
                "n", "o", "p", "q", "r", "s", "t", "u", "v", "w", "x", "y", "z",
                "a_til", "i_acu", "c_ced">>

UpperChars == <<"A", "B", "C", "D", "E", "F", "G", "H", "I", "J", "K", "L", "M",
                "N", "O", "P", "Q", "R", "S", "T", "U", "V", "W", "X", "Y", "Z",
                "A_TIL", "I_ACU", "C_CED">>

IsSpace(c) == c \in {" ", "\t"}

RECURSIVE lstrip(_)
lstrip(s) == IF s # <<>> /\ IsSpace(Head(s)) THEN lstrip(Tail(s)) ELSE s

RECURSIVE rstrip(_)
rstrip(s) ==
  IF s # <<>> /\ IsSpace(s[Len(s)]) THEN rstrip(SubSeq(s, 1, Len(s) - 1)) ELSE s

\* str.strip()
strip(s) == rstrip(lstrip(s))

\* norm(s): (s or "").strip()
norm(s) == strip(s)

\* the position of each character of a sequence without repetition
RECURSIVE IndexFrom(_, _)
IndexFrom(s, i) ==
  IF i > Len(s) THEN <<>> ELSE (s[i] :> i) @@ IndexFrom(s, i + 1)

LowerIndex == IndexFrom(LowerChars, 1)

upper_char(c) ==
  IF c \in DOMAIN LowerIndex THEN UpperChars[LowerIndex[c]] ELSE c

\* str.upper()
upper_text(t) == [i \in 1..Len(t) |-> upper_char(t[i])]

\* upper(s): norm(s).upper()
upper(s) == upper_text(norm(s))

\* sub in s
Contains(s, sub) ==
  \E i \in 0..(Len(s) - Len(sub)) : SubSeq(s, i + 1, i + Len(sub)) = sub

\* s.startswith(p)
startswith(s, p) == Len(s) >= Len(p) /\ SubSeq(s, 1, Len(p)) = p

\* s.split(sep) for a one-character separator
RECURSIVE split(_, _)
split_at(s, sep, i) ==
  <<SubSeq(s, 1, i - 1)>> \o split(SubSeq(s, i + 1, Len(s)), sep)

split(s, sep) ==
  IF \A i \in 1..Len(s) : s[i] # sep
    THEN <<s>>
    ELSE split_at(s, sep, CHOOSE k \in 1..Len(s) :
                            s[k] = sep /\ \A j \in 1..(k - 1) : s[j] # sep)

DigitIndex == IndexFrom(Digits, 1)

DigitVal(c) == DigitIndex[c] - 1

IsDigit(c) == c \in DOMAIN DigitIndex

RECURSIVE digits_value(_)
digits_value(s) ==
  IF s = <<>> THEN 0
  ELSE 10 * digits_value(SubSeq(s, 1, Len(s) - 1)) + DigitVal(s[Len(s)])

\* int(s): surrounding blanks and one sign are accepted, then decimal digits
\* only; None stands for the ValueError the callers catch.  (The digit
\* separator "_" and the digits outside ASCII, which int() also accepts, are
\* in no text of the model.)
int_digits(neg, body) ==
  IF body = <<>> \/ \E i \in 1..Len(body) : ~IsDigit(body[i])
    THEN None
    ELSE Some(IF neg THEN 0 - digits_value(body) ELSE digits_value(body))

int_stripped(t) ==
  IF t # <<>> /\ Head(t) \in {"+", "-"}
    THEN int_digits(Head(t) = "-", Tail(t))
    ELSE int_digits(FALSE, t)

int(s) == int_stripped(strip(s))

RECURSIVE nat_str(_)
nat_str(n) ==
  IF n < 10 THEN <<Digits[n + 1]>>
  ELSE nat_str(n \div 10) \o <<Digits[(n % 10) + 1]>>

\* str(n) of an int
str(n) == IF n < 0 THEN <<"-">> \o nat_str(0 - n) ELSE nat_str(n)

\* ------------------------------------------------------------ calendar
is_leap(y) == y % 4 = 0 /\ (y % 100 # 0 \/ y % 400 = 0)

days_in_month(y, m) ==
  IF m = 2 THEN (IF is_leap(y) THEN 29 ELSE 28)
  ELSE IF m \in {4, 6, 9, 11} THEN 30 ELSE 31

\* date(yy, mm, dd): None stands for the ValueError of an impossible date
date(yy, mm, dd) ==
  IF yy \in 1..9999 /\ mm \in 1..12 /\ dd \in 1..days_in_month(yy, mm)
    THEN Some([year |-> yy, month |-> mm, day |-> dd])
    ELSE None

days_before_year(y) ==
  (y - 1) * 365 + ((y - 1) \div 4) - ((y - 1) \div 100) + ((y - 1) \div 400)

RECURSIVE days_before_month(_, _)
days_before_month(y, m) ==
  IF m = 1 THEN 0
  ELSE days_before_month(y, m - 1) + days_in_month(y, m - 1)

toordinal(d) == days_before_year(d.year) + days_before_month(d.year, d.month) + d.day

\* the day after d (the wall clock moving on)
next_day(d) ==
  IF d.day < days_in_month(d.year, d.month)
    THEN [d EXCEPT !.day = d.day + 1]
    ELSE IF d.month < 12
      THEN [year |-> d.year, month |-> d.month + 1, day |-> 1]
      ELSE [year |-> d.year + 1, month |-> 1, day |-> 1]

pad(s, n) == [i \in 1..(IF Len(s) < n THEN n ELSE Len(s)) |->
                IF i <= n - Len(s) THEN "0"
                ELSE s[i - (IF Len(s) < n THEN n - Len(s) ELSE 0)]]

\* date.isoformat()
isoformat(d) ==
  pad(str(d.year), 4) \o <<"-">> \o pad(str(d.month), 2) \o <<"-">> \o pad(str(d.day), 2)

\* dd<sep>mm<sep>yyyy, the third part of exactly four characters
\* date(yy, mm, dd) of three int() results, None when one of them raised
date_of(yy, mm, dd) ==
  IF dd = None \/ mm = None \/ yy = None THEN None
  ELSE date(yy[1], mm[1], dd[1])

dmy_of(parts) ==
  IF Len(parts) = 3 /\ Len(parts[3]) = 4
    THEN date_of(int(parts[3]), int(parts[2]), int(parts[1]))
    ELSE None

parse_dmy(raw, sep) == dmy_of(split(raw, sep))

\* yyyy-mm-dd by position
parse_ymd(raw) ==
  IF Len(raw) >= 10 /\ raw[5] = "-" /\ raw[8] = "-"
    THEN date_of(int(SubSeq(raw, 1, 4)), int(SubSeq(raw, 6, 7)),
                 int(SubSeq(raw, 9, 10)))
    ELSE None

\* datetime.fromisoformat(s).date() for s = raw[:10]: the layout every
\* interpreter version accepts, YYYY-MM-DD made of digits only.  (From
\* Python 3.11 on the compact and the week layouts parse too; no end date of
\* the model is written in one of them.)
fromisoformat(s) ==
  IF /\ Len(s) = 10
     /\ s[5] = "-"
     /\ s[8] = "-"
     /\ \A i \in {1, 2, 3, 4, 6, 7, 9, 10} : IsDigit(s[i])
    THEN date(digits_value(SubSeq(s, 1, 4)),
              digits_value(SubSeq(s, 6, 7)),
              digits_value(SubSeq(s, 9, 10)))
    ELSE None

\* a when the attempt a gave a date, else the next attempt
or_else(a, b) == IF a # None THEN a ELSE b

\* parse_date_any after raw = norm(raw)
parse_normed(raw) ==
  IF raw = <<>> THEN None
  ELSE or_else(parse_dmy(raw, "/"),
       or_else(parse_dmy(raw, "-"),
       or_else(parse_ymd(raw),
               fromisoformat(SubSeq(raw, 1, IF Len(raw) < 10 THEN Len(raw) ELSE 10)))))

parse_date_any(raw) == parse_normed(norm(raw))

days_to(d, tday) ==
  IF d = None THEN None ELSE Some(toordinal(d[1]) - toordinal(tday))

\* -------------------------------------------------------------- dicts
\* Column names are TLA+ strings; an accented letter of a column name is
\* written as the letter followed by its mark (c, = c cedilla, a~ = a tilde,
\* E^ = E circumflex, E' = E acute).

\* d.get(k, default)
get(d, k, default) == IF k \in DOMAIN d THEN d[k] ELSE default

\* d[k] = v
Put(d, k, v) == (k :> v) @@ d

Range(s) == {s[i] : i \in 1..Len(s)}

DATE_COLS_END ==
  <<"vigencia_termino", "VIGE^NCIA - TE'RMINO", "vencimento", "Vencimento", "vigencia_fim">>

RECURSIVE first(_, _)
first(row, keys) ==
  IF keys = <<>> THEN <<>>
  ELSE IF Head(keys) \in DOMAIN row /\ norm(row[Head(keys)]) # <<>>
    THEN row[Head(keys)]
    ELSE first(row, Tail(keys))

\* ------------------------------------------------------ the classifier
SEM_DATA == <<"S", "E", "M", " ", "D", "A", "T", "A">>

VENCIDO == <<"V", "E", "N", "C", "I", "D", "O">>

CRITICO == <<"C", "R", "I_ACU", "T", "I", "C", "O", " ", "(", "<=", "3", "0", "d", ")">>

EXECUCAO == <<"E", "X", "E", "C", "U", "C_CED", "A_TIL", "O", " ", "(", "<=", "6", "0", "d", ")">>

PREPARACAO ==
  <<"P", "R", "E", "P", "A", "R", "A", "C_CED", "A_TIL", "O", " ", "(", "<=", "1", "8", "0", "d", ")">>

OK == <<"O", "K", " ", "(", ">", "1", "8", "0", "d", ")">>

risco_categoria_lt(dias) ==
  IF dias = None THEN SEM_DATA
  ELSE IF dias[1] < 0 THEN VENCIDO
  ELSE IF dias[1] < 30 THEN CRITICO
  ELSE IF dias[1] <= 60 THEN EXECUCAO
  ELSE IF dias[1] <= 180 THEN PREPARACAO
  ELSE OK

risco_categoria(dias) ==
  IF dias = None THEN SEM_DATA
  ELSE IF dias[1] < 0 THEN VENCIDO
  ELSE IF dias[1] <= 30 THEN CRITICO
  ELSE IF dias[1] <= 60 THEN EXECUCAO
  ELSE IF dias[1] <= 180 THEN PREPARACAO
  ELSE OK

\* ------------------------------------------------- the state predicates
\* ("CONCL" in v) or ("FINALIZ" in v)
concluido_text(v) ==
  Contains(v, <<"C", "O", "N", "C", "L">>)
    \/ Contains(v, <<"F", "I", "N", "A", "L", "I", "Z">>)

is_concluido(row) ==
  concluido_text(upper(first(row, <<"status_execucao", "status_execuc,a~o",
                                    "situacao_execucao", "situac,a~o_execucao",
                                    "andamento", "execucao", "execuc,a~o">>)))

\* v in {"SIM", "S", "1", "TRUE"} or ("ARQUIV" in v)
arquivado_text(v) ==
  v \in {<<"S", "I", "M">>, <<"S">>, <<"1">>, <<"T", "R", "U", "E">>}
    \/ Contains(v, <<"A", "R", "Q", "U", "I", "V">>)

is_arquivado(row) ==
  arquivado_text(upper(first(row, <<"arquivado", "Arquivado", "status_geral",
                                    "Status Geral", "status">>)))

\* the row once extr = norm(row.get("numero_extrato_publicado", "")) is read
back_fill(row, extr) ==
  IF norm(get(row, "publicacao_doe", <<>>)) = <<>> /\ extr # <<>>
    THEN Put(row, "publicacao_doe", extr)
    ELSE row

\* the row after ensure_publicacao_doe(row)
ensure_publicacao_doe(row) ==
  back_fill(row, norm(get(row, "numero_extrato_publicado", <<>>)))

\* ------------------------------------------------------- the csv files
\* A file is [headers |-> the header line, rows |-> the data lines], each
\* data line a function from the header names to text (csv.DictReader's
\* view of it, a missing cell read as "").

\* read_csv: the lines that are not blank, and the headers
read_csv(file) ==
  [rows |-> SelectSeq(file.rows,
                      LAMBDA r : \E k \in DOMAIN r : norm(r[k]) # <<>>),
   headers |-> file.headers]

\* the file write_csv(path, rows, headers) leaves
write_csv(rows, headers) ==
  [headers |-> headers,
   rows |-> [i \in 1..Len(rows) |->
               [h \in Range(headers) |-> get(rows[i], h, <<>>)]]]

\* ------------------------------------------------------- main: the loop
SIM == <<"S", "I", "M">>

NAO == <<"N", "A_TIL", "O">>

CONCLUIDO == <<"C", "O", "N", "C", "L", "U", "I_ACU", "D", "O">>

EM_ANDAMENTO == <<"E", "M", " ", "A", "N", "D", "A", "M", "E", "N", "T", "O">>

wanted_cols ==
  <<"dias_para_vencer", "categoria_risco", "alerta_30", "alerta_60",
    "alerta_180", "status_execucao_padrao", "publicacao_doe">>

AddCols_always(headers, cols) == headers \o cols

\* for c in wanted_cols: if c not in headers: headers.append(c)
RECURSIVE AddCols(_, _)
AddCols(headers, cols) ==
  IF cols = <<>> THEN headers
  ELSE AddCols(IF Head(cols) \in Range(headers) THEN headers
               ELSE Append(headers, Head(cols)),
               Tail(cols))

AlertaFlag_noLower(dias, n) ==
  IF dias # None /\ dias[1] <= n THEN SIM ELSE NAO

\* "SIM" if (dias is not None and 0 <= dias <= n) else "NAO"
AlertaFlag(dias, n) ==
  IF dias # None /\ 0 <= dias[1] /\ dias[1] <= n THEN SIM ELSE NAO

\* the row after the derived date columns are written
\* the row after the five derived columns are written, dias being known
WriteDerived(r, dias) ==
  Put(Put(Put(Put(Put(r,
    "dias_para_vencer", IF dias = None THEN <<>> ELSE str(dias[1])),
    "categoria_risco", risco_categoria(dias)),
    "alerta_30", AlertaFlag(dias, 30)),
    "alerta_60", AlertaFlag(dias, 60)),
    "alerta_180", AlertaFlag(dias, 180))

\* the row after fim_raw, fim and dias are computed and the columns written
Augment(r, tday) ==
  WriteDerived(r, days_to(parse_date_any(first(r, DATE_COLS_END)), tday))

Tally_noVencido(acc, cat) ==
  IF startswith(cat, <<"C", "R", "I_ACU", "T", "I", "C", "O">>)
    THEN [acc EXCEPT !.count_critico = @ + 1]
  ELSE IF startswith(cat, <<"E", "X", "E", "C", "U", "C_CED", "A_TIL", "O">>)
    THEN [acc EXCEPT !.count_execucao = @ + 1]
  ELSE IF startswith(cat, <<"P", "R", "E", "P", "A", "R", "A", "C_CED", "A_TIL", "O">>)
    THEN [acc EXCEPT !.count_preparacao = @ + 1]
  ELSE IF cat = SEM_DATA
    THEN [acc EXCEPT !.count_semdata = @ + 1]
  ELSE IF startswith(cat, <<"O", "K">>)
    THEN [acc EXCEPT !.count_ok = @ + 1]
  ELSE acc

\* the counters by category
Tally(acc, cat) ==
  IF startswith(cat, <<"C", "R", "I_ACU", "T", "I", "C", "O">>)
    THEN [acc EXCEPT !.count_critico = @ + 1]
  ELSE IF startswith(cat, <<"E", "X", "E", "C", "U", "C_CED", "A_TIL", "O">>)
    THEN [acc EXCEPT !.count_execucao = @ + 1]
  ELSE IF startswith(cat, <<"P", "R", "E", "P", "A", "R", "A", "C_CED", "A_TIL", "O">>)
    THEN [acc EXCEPT !.count_preparacao = @ + 1]
  ELSE IF cat = SEM_DATA
    THEN [acc EXCEPT !.count_semdata = @ + 1]
  ELSE IF cat = VENCIDO
    THEN [acc EXCEPT !.count_vencido = @ + 1]
  ELSE IF startswith(cat, <<"O", "K">>)
    THEN [acc EXCEPT !.count_ok = @ + 1]
  ELSE acc

Enqueue_dated(acc, i, r) ==
  [acc EXCEPT
     !.prioridades = IF r["dias_para_vencer"] # <<>> THEN Append(@, i) ELSE @,
     !.alertas30 = IF r["alerta_30"] = SIM THEN Append(@, i) ELSE @,
     !.alertas60 = IF r["alerta_60"] = SIM THEN Append(@, i) ELSE @,
     !.alertas180 = IF r["alerta_180"] = SIM THEN Append(@, i) ELSE @]

\* the appends to the four queues; a queue holds the dicts of `rows`, each
\* named here by its position in `rows`
Enqueue(acc, i, r) ==
  [acc EXCEPT
     !.prioridades = Append(@, i),
     !.alertas30 = IF r["alerta_30"] = SIM THEN Append(@, i) ELSE @,
     !.alertas60 = IF r["alerta_60"] = SIM THEN Append(@, i) ELSE @,
     !.alertas180 = IF r["alerta_180"] = SIM THEN Append(@, i) ELSE @]

\* the row with status_execucao_padrao written
WithStatus(r) ==
  Put(r, "status_execucao_padrao",
      IF is_concluido(r) THEN CONCLUIDO ELSE EM_ANDAMENTO)

\* if is_concluido(r): count_concluidos += 1
CountConcluido(acc, r) ==
  IF is_concluido(r) THEN [acc EXCEPT !.count_concluidos = @ + 1] ELSE acc

\* the rest of the pass for a row that is not archived, r being augmented
Survivor(acc, i, r) ==
  Enqueue(Tally([acc EXCEPT !.rows[i] = r], r["categoria_risco"]), i, r)

Filter_noskip(acc, i, tday, r) ==
  Survivor(IF is_arquivado(r)
             THEN [acc EXCEPT !.count_arquivados = @ + 1] ELSE acc,
           i, Augment(r, tday))

\* the pass from `if is_arquivado(r)` on
Filter(acc, i, tday, r) ==
  IF is_arquivado(r)
    THEN [acc EXCEPT !.rows[i] = r, !.count_arquivados = @ + 1]
    ELSE Survivor(acc, i, Augment(r, tday))

\* the pass from the count of the concluded rows on
Counted(acc, i, tday, r) == Filter(CountConcluido(acc, r), i, tday, r)

\* one pass of `for r in rows`, on the row at position i
LoopBody(acc, i, tday) ==
  Counted(acc, i, tday, WithStatus(ensure_publicacao_doe(acc.rows[i])))

RECURSIVE RunLoop(_, _, _)
RunLoop(acc, i, tday) ==
  IF i > Len(acc.rows) THEN acc ELSE RunLoop(LoopBody(acc, i, tday), i + 1, tday)

\* ------------------------------------------------------- main: the sort
\* the characters in code point order
CodePoints ==
  <<"\t", " ", "(", ")", "+", "-", "/",
    "0", "1", "2", "3", "4", "5", "6", "7", "8", "9", ">",
    "A", "B", "C", "D", "E", "F", "G", "H", "I", "J", "K", "L", "M",
    "N", "O", "P", "Q", "R", "S", "T", "U", "V", "W", "X", "Y", "Z", "_",
    "a", "b", "c", "d", "e", "f", "g", "h", "i", "j", "k", "l", "m",
    "n", "o", "p", "q", "r", "s", "t", "u", "v", "w", "x", "y", "z",
    "A_TIL", "C_CED", "I_ACU", "a_til", "c_ced", "i_acu", "<=">>

CodeIndex == IndexFrom(CodePoints, 1)

ord(c) == CodeIndex[c]

\* a < b for two str
RECURSIVE text_lt(_, _)
text_lt(a, b) ==
  IF b = <<>> THEN FALSE
  ELSE IF a = <<>> THEN TRUE
  ELSE IF Head(a) = Head(b) THEN text_lt(Tail(a), Tail(b))
  ELSE ord(Head(a)) < ord(Head(b))

\* a < b for two (int, str) tuples
key_lt(a, b) == a[1] < b[1] \/ (a[1] = b[1] /\ text_lt(a[2], b[2]))

SENTINEL == 1000000000

\* a or b for two str
or_text(a, b) == IF a # <<>> THEN a ELSE b

\* the int, or the default when int() raised
int_or(d, default) == IF d = None THEN default ELSE d[1]

sort_key_zero(r) ==
  <<int_or(int(strip(get(r, "dias_para_vencer", <<>>))), 0),
    or_text(norm(get(r, "identificacao", <<>>)),
            norm(get(r, "Identificac,a~o", <<>>)))>>

sort_key(r) ==
  <<int_or(int(strip(get(r, "dias_para_vencer", <<>>))), SENTINEL),
    or_text(norm(get(r, "identificacao", <<>>)),
            norm(get(r, "Identificac,a~o", <<>>)))>>

\* x placed after every element whose key is not greater than its own
RECURSIVE insert(_, _, _)
insert(s, x, rows) ==
  IF s = <<>> THEN <<x>>
  ELSE IF key_lt(sort_key(rows[x]), sort_key(rows[Head(s)])) THEN <<x>> \o s
  ELSE <<Head(s)>> \o insert(Tail(s), x, rows)

RECURSIVE sort_from(_, _, _)
sort_from(done, rest, rows) ==
  IF rest = <<>> THEN done
  ELSE sort_from(insert(done, Head(rest), rows), Tail(rest), rows)

\* q.sort(key=sort_key): stable
list_sort(q, rows) == sort_from(<<>>, q, rows)

\* ----------------------------------------------------- main: the result
\* what main() leaves when the table is there: the rewritten table, the
\* four sorted queues and the summary
Outputs(acc, headers, prioridades, alertas30, alertas60, alertas180, tday) ==
  [csv |-> write_csv(acc.rows, headers),
   filas |-> [prioridades |-> prioridades, alertas30 |-> alertas30,
              alertas60 |-> alertas60, alertas180 |-> alertas180],
   resumo |->
     [data_execucao |-> isoformat(tday),
      total_registros_csv |-> Len(acc.rows),
      ignorados_arquivados |-> acc.count_arquivados,
      total_base_painel |-> Len(prioridades),
      concluidos |-> acc.count_concluidos,
      categorias |->
        [preparacao_ate_180 |-> acc.count_preparacao,
         execucao_ate_60 |-> acc.count_execucao,
         critico_ate_30 |-> acc.count_critico,
         ok |-> acc.count_ok,
         sem_data |-> acc.count_semdata,
         vencido |-> acc.count_vencido],
      alertas |->
        [alerta_180 |-> Len(alertas180),
         alerta_60 |-> Len(alertas60),
         alerta_30 |-> Len(alertas30)]]]

\* main() from the four sorts on, acc being the state the loop left
Sorted(acc, headers, tday) ==
  Outputs(acc, headers,
          list_sort(acc.prioridades, acc.rows), list_sort(acc.alertas30, acc.rows),
          list_sort(acc.alertas60, acc.rows), list_sort(acc.alertas180, acc.rows),
          tday)

\* the queues and counters before the loop
Acc0(rows) ==
  [rows |-> rows,
   prioridades |-> <<>>, alertas30 |-> <<>>,
   alertas60 |-> <<>>, alertas180 |-> <<>>,
   count_critico |-> 0, count_execucao |-> 0,
   count_preparacao |-> 0, count_semdata |-> 0,
   count_vencido |-> 0, count_ok |-> 0,
   count_concluidos |-> 0, count_arquivados |-> 0]

\* main() after read_csv returned rd
Loaded(rd, tday) ==
  Sorted(RunLoop(Acc0(rd.rows), 1, tday), AddCols(rd.headers, wanted_cols), tday)

MainResult(file, tday) == Loaded(read_csv(file), tday)

\* ------------------------------------------------- send_email.py: main
\* int((d or {}).get(key, default) or default), the values being ints
parse_int(d, key, default) ==
  LET v == get(d, key, default) IN IF v = 0 THEN default ELSE v

N_D == <<"N", "/", "D">>

\* The message send_email.py builds from the summary: the subject with the
\* values it embeds, and the body lines that carry a value, each as
\* [texto |-> the fixed wording, valor |-> the number as printed].
EmailMessage(res) ==
  LET data_exec == IF strip(get(res, "data_execucao", <<>>)) # <<>>
                     THEN strip(get(res, "data_execucao", <<>>)) ELSE N_D
      cats == get(res, "categorias", <<>>)
      al == get(res, "alertas", <<>>)
      confort == parse_int(cats, "ok", 0)
      alerta180 == parse_int(al, "alerta_180", 0)
      crit60 == parse_int(al, "alerta_60", 0)
      sem_data == parse_int(cats, "sem_data", 0)
      vencido == parse_int(cats, "vencido", 0)
      total_base == get(res, "total_base_painel", 0)
      ignorados == get(res, "ignorados_arquivados", 0)
      concluidos == get(res, "concluidos", 0)
  IN  [script |-> "send_email.py",
       subject |-> [data_exec |-> data_exec,
                    d180 |-> str(alerta180), d60 |-> str(crit60)],
       linhas |->
         <<[texto |-> "Data de referencia", valor |-> data_exec],
           [texto |-> "Total na base do painel", valor |-> str(total_base)],
           [texto |-> "Concluidos (marcados em status_execucao)",
            valor |-> str(concluidos)],
           [texto |-> "Ignorados (arquivados)", valor |-> str(ignorados)],
           [texto |-> "Instrumentos em situacao confortavel (vigencia superior a 180 dias)",
            valor |-> str(confort)],
           [texto |-> "Instrumentos em alerta de atencao (vigencia entre 61 e 180 dias)",
            valor |-> str(alerta180)],
           [texto |-> "Instrumentos em situacao critica (vigencia ate 60 dias)",
            valor |-> str(crit60)]>>
         \o (IF vencido # 0
               THEN <<[texto |-> "Instrumentos com vigencia expirada",
                       valor |-> str(vencido)]>>
               ELSE <<>>)
         \o (IF sem_data # 0
               THEN <<[texto |-> "Instrumentos sem registro valido de vigencia",
                       valor |-> str(sem_data)]>>
               ELSE <<>>)
         \o (IF "menor_prazo_dias" \in DOMAIN res
               THEN <<[texto |-> "Menor prazo identificado no periodo",
                       valor |-> str(res["menor_prazo_dias"])]>>
               ELSE <<>>)]

\* ------------------------------------------ send_email_resumo.py: main
ResumoMessage(res) ==
  LET data_exec == get(res, "data_execucao", <<>>)
      cont == get(res, "contagens", <<>>)
      confort == get(cont, "CONFORTAVEL", 0)
      alerta180 == get(cont, "ALERTA_180", 0)
      crit60 == get(cont, "CRITICO_60", 0)
      vencido == get(cont, "VENCIDO", 0)
      sem_data == get(cont, "SEM DATA", 0)
  IN  [script |-> "send_email_resumo.py",
       subject |-> [data_exec |-> data_exec,
                    d180 |-> str(alerta180), d60 |-> str(crit60)],
       linhas |->
         <<[texto |-> "Data de execucao", valor |-> data_exec],
           [texto |-> "Confortavel (>180 dias)", valor |-> str(confort)],
           [texto |-> "Alerta (61-180 dias)", valor |-> str(alerta180)],
           [texto |-> "Critico (0-60 dias)", valor |-> str(crit60)]>>
         \o (IF vencido # 0
               THEN <<[texto |-> "Vencido (<0 dias)", valor |-> str(vencido)]>>
               ELSE <<>>)
         \o (IF sem_data # 0
               THEN <<[texto |-> "Sem data (inconsistencia cadastral)",
                       valor |-> str(sem_data)]>>
               ELSE <<>>)
         \o (IF "menor_prazo_dias" \in DOMAIN res
               THEN <<[texto |-> "Menor prazo atual",
                       valor |-> str(res["menor_prazo_dias"])]>>
               ELSE <<>>)]

\* ------------------------------------------------------------- inputs
\* the day of the first run
StartDay == [year |-> 2026, month |-> 1, day |-> 1]

\* the header line of the input table
InHeaders ==
  <<"identificacao", "Identificac,a~o", "vigencia_termino", "vencimento",
    "arquivado", "status", "status_execucao", "numero_extrato_publicado">>

Row(id, id2, vig, venc, arq, st, exe, extr) ==
  [h \in Range(InHeaders) |->
     CASE h = "identificacao" -> id
       [] h = "Identificac,a~o" -> id2
       [] h = "vigencia_termino" -> vig
       [] h = "vencimento" -> venc
       [] h = "arquivado" -> arq
       [] h = "status" -> st
       [] h = "status_execucao" -> exe
       [] h = "numero_extrato_publicado" -> extr]

\* The lines a table is drawn from.  Against StartDay the end dates are 31
\* days ahead (twice, in two layouts), 61 days, 181 days, the day itself, an
\* impossible date, and 9 days ahead on an archived line; one archived line
\* has no date and one line is blank.
Row1 ==
  Row(<<"b">>,
      <<>>,
      <<"0", "1", "/", "0", "2", "/", "2", "0", "2", "6">>,
      <<>>,
      <<>>,
      <<>>,
      <<>>,
      <<>>)

Row2 ==
  Row(<<" ">>,
      <<"a">>,
      <<"2", "0", "2", "6", "-", "0", "2", "-", "0", "1">>,
      <<>>,
      <<>>,
      <<>>,
      <<"C", "o", "n", "c", "l", "u", "i_acu", "d", "o">>,
      <<"1", "2">>)

Row3 ==
  Row(<<"c">>,
      <<>>,
      <<>>,
      <<"2", "0", "2", "6", "-", "0", "3", "-", "0", "3">>,
      <<"n", "a_til", "o">>,
      <<>>,
      <<>>,
      <<>>)

Row4 ==
  Row(<<"d">>,
      <<>>,
      <<"0", "1", "-", "0", "7", "-", "2", "0", "2", "6">>,
      <<>>,
      <<>>,
      <<>>,
      <<"e", "m", " ", "a", "n", "d", "a", "m", "e", "n", "t", "o">>,
      <<>>)

Row5 ==
  Row(<<"e">>,
      <<>>,
      <<"0", "1", "/", "0", "1", "/", "2", "0", "2", "6">>,
      <<>>,
      <<>>,
      <<"a", "t", "i", "v", "o">>,
      <<>>,
      <<>>)

Row6 ==
  Row(<<"a">>,
      <<>>,
      <<"3", "1", "/", "0", "2", "/", "2", "0", "2", "6">>,
      <<>>,
      <<>>,
      <<>>,
      <<>>,
      <<>>)

Row7 ==
  Row(<<"f">>,
      <<>>,
      <<"1", "0", "/", "0", "1", "/", "2", "0", "2", "6">>,
      <<>>,
      <<" ", "S", "i", "m", " ">>,
      <<>>,
      <<"f", "i", "n", "a", "l", "i", "z", "a", "d", "o">>,
      <<>>)

Row8 ==
  Row(<<"g">>,
      <<>>,
      <<>>,
      <<>>,
      <<>>,
      <<"a", "r", "q", "u", "i", "v", "a", "d", "o", " ", "e", "m", " ", "2", "0", "2", "5">>,
      <<>>,
      <<>>)

Row9 ==
  Row(<<>>,
      <<>>,
      <<>>,
      <<>>,
      <<>>,
      <<>>,
      <<>>,
      <<>>)

RowSamples == {Row1, Row2, Row3, Row4, Row5, Row6, Row7, Row8, Row9}

RECURSIVE SeqsUpTo(_, _)
SeqsUpTo(S, n) ==
  IF n = 0 THEN {<<>>}
  ELSE LET shorter == SeqsUpTo(S, n - 1)
       IN  shorter \cup {Append(q, x) : q \in {p \in shorter : Len(p) = n - 1}, x \in S}

Tables == SeqsUpTo(RowSamples, MaxRows)

NoFilas == [prioridades |-> <<>>, alertas30 |-> <<>>,
            alertas60 |-> <<>>, alertas180 |-> <<>>]

\* ------------------------------------------------------ the state machine
\* today:      the day date.today() gives
\* csv:        data/tbl_instrumentos.csv, None when the file is not there
\* filas:      the four queues of the last run of main(), sorted; each holds
\*             positions in the table the run read (and rewrote)
\* resumo:     data/resumo_execucao.json, None when not there
\* exitCode:   what the last main() returned
\* rerun:      an observer, not a value of the program: whether the last run
\*             of main() found the summary of an earlier run of the same day
\* mail:       the last message a notification script built and sent
\* probe:      the day counts given to risco_categoria on its own
Init ==
  /\ today = StartDay
  /\ csv \in {None} \cup {Some([headers |-> InHeaders, rows |-> t]) : t \in Tables}
  /\ filas = NoFilas
  /\ resumo = None
  /\ exitCode = None
  /\ rerun = FALSE
  /\ mail = None
  /\ probe = None

\* monitor_act.py main(), the table being there
MonitorMain ==
  /\ csv # None
  /\ LET res == MainResult(csv[1], today)
     IN  /\ csv' = Some(res.csv)
         /\ filas' = res.filas
         /\ resumo' = Some(res.resumo)
  /\ exitCode' = Some(0)
  /\ rerun' = (resumo # None /\ resumo[1].data_execucao = isoformat(today))
  /\ UNCHANGED <<today, mail, probe>>

\* monitor_act.py main(), the table missing: return 1
MonitorMissing ==
  /\ csv = None
  /\ exitCode' = Some(1)
  /\ UNCHANGED <<today, csv, filas, resumo, rerun, mail, probe>>

\* the wall clock passes midnight
Tick ==
  /\ toordinal(today) < toordinal(StartDay) + MaxTicks
  /\ today' = next_day(today)
  /\ UNCHANGED <<csv, filas, resumo, exitCode, rerun, mail, probe>>

\* send_email.py main(), the SMTP variables set and the summary being there
SendEmail ==
  /\ resumo # None
  /\ mail' = Some(EmailMessage(resumo[1]))
  /\ UNCHANGED <<today, csv, filas, resumo, exitCode, rerun, probe>>

\* send_email_resumo.py main(), the SMTP variables set and the summary being
\* there
SendEmailResumo ==
  /\ resumo # None
  /\ mail' = Some(ResumoMessage(resumo[1]))
  /\ UNCHANGED <<today, csv, filas, resumo, exitCode, rerun, probe>>

Next == MonitorMain \/ MonitorMissing \/ Tick \/ SendEmail \/ SendEmailResumo

Spec == Init /\ [][Next]_vars

\* --------------------------------------------- the classifier on its own
DiasInputs == {None} \cup {Some(n) : n \in (0 - 3)..MaxDias}

InitRisco ==
  /\ today = StartDay
  /\ csv = None
  /\ filas = NoFilas
  /\ resumo = None
  /\ exitCode = None
  /\ rerun = FALSE
  /\ mail = None
  /\ probe \in {Some([a |-> x, b |-> y, cat_a |-> <<>>, cat_b |-> <<>>, done |-> FALSE]) :
                  x \in DiasInputs, y \in DiasInputs}

\* risco_categoria applied to the two day counts of the probe
Classify ==
  /\ probe # None
  /\ ~probe[1].done
  /\ probe' = Some([probe[1] EXCEPT !.cat_a = risco_categoria(probe[1].a),
                                    !.cat_b = risco_categoria(probe[1].b),
                                    !.done = TRUE])
  /\ UNCHANGED <<today, csv, filas, resumo, exitCode, rerun, mail>>

NextRisco == Classify

SpecRisco == InitRisco /\ [][NextRisco]_vars

\* ============================================================ properties
\* What the properties read of a finished run.
Done == exitCode = Some(0)

\* the table of the last run, as it was rewritten
Tab == csv[1].rows

\* the day of the last run, read back from the summary
RunDay == parse_date_any(resumo[1].data_execucao)[1]

\* the days remaining of a line on the day of the last run, from its end date
DiasDe(r) == days_to(parse_date_any(first(r, DATE_COLS_END)), RunDay)

Sobreviventes == {i \in 1..Len(Tab) : ~is_arquivado(Tab[i])}

Arquivados == {i \in 1..Len(Tab) : is_arquivado(Tab[i])}

Membros(q) == {q[k] : k \in 1..Len(q)}

\* the surviving lines with lo <= days remaining <= hi
NaFaixa(lo, hi) ==
  {i \in Sobreviventes :
     DiasDe(Tab[i]) # None /\ lo <= DiasDe(Tab[i])[1] /\ DiasDe(Tab[i])[1] <= hi}

\* the identification of a line, under either spelling of the column
Ident(r) ==
  IF norm(get(r, "identificacao", <<>>)) # <<>>
    THEN norm(get(r, "identificacao", <<>>))
    ELSE norm(get(r, "Identificac,a~o", <<>>))

\* the value printed on the body line of that wording
Valor(m, texto) ==
  m.linhas[CHOOSE k \in 1..Len(m.linhas) : m.linhas[k].texto = texto].valor

\* C1: after main(), no archived line is in any of the four queues, and the
\* summary's ignorados_arquivados is the number of archived lines.
C1_ArchivedFiltered ==
  Done =>
    /\ \A i \in Arquivados :
         /\ i \notin Membros(filas.prioridades)
         /\ i \notin Membros(filas.alertas30)
         /\ i \notin Membros(filas.alertas60)
         /\ i \notin Membros(filas.alertas180)
    /\ resumo[1].ignorados_arquivados = Cardinality(Arquivados)

\* a run over a table with an archived line whose end date is in alert range
\* and a line that survived
C1_Witness ==
  /\ Done
  /\ \E i \in Arquivados :
       /\ DiasDe(Tab[i]) # None
       /\ DiasDe(Tab[i])[1] \in 0..30
  /\ Sobreviventes # {}

\* C2 (as claimed): after main() every line of the table, archived or not,
\* carries the derived fields of this run: the days remaining, the category,
\* the three alert flags and the execution status.
C2_AllAugmented ==
  Done =>
    \A i \in 1..Len(Tab) :
      LET r == Tab[i]
          dias == DiasDe(r)
      IN  /\ r["dias_para_vencer"] = (IF dias = None THEN <<>> ELSE str(dias[1]))
          /\ r["categoria_risco"] = risco_categoria(dias)
          /\ r["alerta_30"] \in {SIM, NAO}
          /\ r["alerta_60"] \in {SIM, NAO}
          /\ r["alerta_180"] \in {SIM, NAO}
          /\ r["status_execucao_padrao"] \in {CONCLUIDO, EM_ANDAMENTO}

\* C3: after main(), the priority queue holds every surviving line exactly
\* once and nothing else, the lines without a usable end date included.
C3_PriorityComplete ==
  Done =>
    /\ Membros(filas.prioridades) = Sobreviventes
    /\ Len(filas.prioridades) = Cardinality(Sobreviventes)
    /\ resumo[1].total_base_painel = Cardinality(Sobreviventes)

\* a run that put a line with an impossible end date in the priority queue
C3_Witness ==
  /\ Done
  /\ \E i \in Membros(filas.prioridades) :
       /\ norm(first(Tab[i], DATE_COLS_END)) # <<>>
       /\ DiasDe(Tab[i]) = None

\* the line i, of days remaining d, may be in the N-day alert queue
Cabe(i, d, n) ==
  ~is_arquivado(Tab[i]) /\ d # None /\ 0 <= d[1] /\ d[1] <= n

\* the alert queues are right about the line i, of days remaining d
AlertasCertas(i, d) ==
  /\ i \in Membros(filas.alertas30) => Cabe(i, d, 30)
  /\ i \in Membros(filas.alertas60) => Cabe(i, d, 60)
  /\ i \in Membros(filas.alertas180) => Cabe(i, d, 180)
  /\ (d = None \/ d[1] < 0) =>
       i \notin Membros(filas.alertas30) \cup Membros(filas.alertas60)
                  \cup Membros(filas.alertas180)

\* C4: every line of the N-day alert queue survived, has a usable end date
\* and 0 <= days remaining <= N; a line with no usable date or with
\* negative days remaining is in no alert queue.
C4_AlertRange ==
  Done =>
    /\ Membros(filas.alertas30) \cup Membros(filas.alertas60)
         \cup Membros(filas.alertas180) \subseteq 1..Len(Tab)
    /\ \A i \in 1..Len(Tab) : AlertasCertas(i, DiasDe(Tab[i]))

\* a run with a line in an alert queue beside a surviving expired line
C4_Witness ==
  /\ Done
  /\ filas.alertas180 # <<>>
  /\ \E i \in Sobreviventes : DiasDe(Tab[i]) # None /\ DiasDe(Tab[i])[1] < 0

\* x may stand before y in a sorted queue
EmOrdem(x, y) ==
  LET dx == DiasDe(x)
      dy == DiasDe(y)
  IN  /\ (dx = None => dy = None)
      /\ (dx # None /\ dy # None => dx[1] <= dy[1])
      /\ (dx = dy => ~text_lt(Ident(y), Ident(x)))

FilaEmOrdem(q) ==
  \A k \in 1..Len(q) : \A l \in (k + 1)..Len(q) : EmOrdem(Tab[q[k]], Tab[q[l]])

\* C5: in every queue, a line never stands before one with fewer days
\* remaining, lines with equal days remaining stand in ascending order of
\* identification, and every line without a usable date stands after every
\* line with one.
C5_Sorted ==
  Done =>
    /\ FilaEmOrdem(filas.prioridades)
    /\ FilaEmOrdem(filas.alertas30)
    /\ FilaEmOrdem(filas.alertas60)
    /\ FilaEmOrdem(filas.alertas180)

\* a run whose sort moved a line before an earlier line of the table with the
\* same days remaining
C5_Witness ==
  /\ Done
  /\ \E k \in 1..Len(filas.alertas60) : \E l \in (k + 1)..Len(filas.alertas60) :
       /\ filas.alertas60[k] > filas.alertas60[l]
       /\ DiasDe(Tab[filas.alertas60[k]]) = DiasDe(Tab[filas.alertas60[l]])

NoDuplicates(s) == \A k, l \in 1..Len(s) : s[k] = s[l] => k = l

\* C6: main() run again on the table a run of the same day rewrote leaves
\* the table (every derived value, and a header line without a repeated
\* column), the four queues and the summary as they were.
C6_Idempotent ==
  [][(/\ resumo # None
      /\ resumo[1].data_execucao = isoformat(today)
      /\ MonitorMain)
       => /\ csv' = csv
          /\ filas' = filas
          /\ resumo' = resumo
          /\ NoDuplicates(csv'[1].headers)]_vars

\* a second run of the same day over a table with an archived line and a
\* line in an alert queue
C6_Witness ==
  /\ Done
  /\ rerun
  /\ Arquivados # {}
  /\ filas.alertas180 # <<>>

Urgency(cat) ==
  CASE cat = CRITICO -> 4
    [] cat = EXECUCAO -> 3
    [] cat = PREPARACAO -> 2
    [] cat = OK -> 1
    [] OTHER -> 0

Banda(d) ==
  IF d = None THEN SEM_DATA
  ELSE IF d[1] < 0 THEN VENCIDO
  ELSE IF d[1] \in 0..30 THEN CRITICO
  ELSE IF d[1] \in 31..60 THEN EXECUCAO
  ELSE IF d[1] \in 61..180 THEN PREPARACAO
  ELSE OK

\* C7: for day counts 0 <= a < b the band of a is at least as urgent as the
\* band of b; 30, 60 and 180 belong to the band they close; a negative count
\* is VENCIDO and an absent one SEM DATA.
C7_Monotonic ==
  (probe # None /\ probe[1].done) =>
    LET p == probe[1]
    IN  /\ (p.a # None /\ p.b # None /\ 0 <= p.a[1] /\ p.a[1] < p.b[1]) =>
             /\ Urgency(p.cat_a) >= Urgency(p.cat_b)
             /\ Urgency(p.cat_b) >= 1
        /\ p.cat_a = Banda(p.a)
        /\ p.cat_b = Banda(p.b)

\* the classifier applied on the two sides of the 30-day bound
C7_Witness ==
  /\ probe # None
  /\ probe[1].done
  /\ probe[1].a = Some(30)
  /\ probe[1].b = Some(31)

\* the message of that script was built from the summary now on disk
MailDe(script) ==
  /\ Done
  /\ mail # None
  /\ mail[1].script = script
  /\ mail[1].subject.data_exec = resumo[1].data_execucao

\* C8 (as claimed): in the message of send_email.py the number on the line
\* "vigencia entre 61 e 180 dias" is the number of surviving lines with 61 to
\* 180 days remaining, and no line is counted both there and on the line
\* "vigencia ate 60 dias".
C8_AttentionBand ==
  MailDe("send_email.py") =>
    LET atencao == int(Valor(mail[1],
                     "Instrumentos em alerta de atencao (vigencia entre 61 e 180 dias)"))
        critica == int(Valor(mail[1],
                     "Instrumentos em situacao critica (vigencia ate 60 dias)"))
    IN  /\ atencao = Some(Cardinality(NaFaixa(61, 180)))
        /\ atencao[1] + critica[1] <= Cardinality(NaFaixa(0, 180))

\* C9 (as claimed): the 180-day and 60-day counts in the subject and body of
\* the message of send_email_resumo.py are the alert counts of the summary.
C9_ResumoCounts ==
  MailDe("send_email_resumo.py") =>
    /\ mail[1].subject.d180 = str(resumo[1].alertas.alerta_180)
    /\ mail[1].subject.d60 = str(resumo[1].alertas.alerta_60)
    /\ Valor(mail[1], "Alerta (61-180 dias)") = str(resumo[1].alertas.alerta_180)
    /\ Valor(mail[1], "Critico (0-60 dias)") = str(resumo[1].alertas.alerta_60)

\* C10: the summary's counts add up: the lines read are the archived plus
\* the surviving ones, the six categories partition the surviving ones, and
\* each alert count is the sum of the categories up to its bound.
C10_Accounting ==
  Done =>
    LET r == resumo[1]
        c == r.categorias
    IN  /\ r.total_registros_csv = r.ignorados_arquivados + r.total_base_painel
        /\ r.total_registros_csv = Len(Tab)
        /\ c.critico_ate_30 + c.execucao_ate_60 + c.preparacao_ate_180
             + c.ok + c.sem_data + c.vencido = r.total_base_painel
        /\ r.alertas.alerta_30 = c.critico_ate_30
        /\ r.alertas.alerta_60 = c.critico_ate_30 + c.execucao_ate_60
        /\ r.alertas.alerta_180 =
             c.critico_ate_30 + c.execucao_ate_60 + c.preparacao_ate_180

\* a run over an archived line and an expired line that survived
C10_Witness ==
  /\ Done
  /\ resumo[1].ignorados_arquivados = 1
  /\ resumo[1].categorias.vencido = 1

====
